---- MODULE Spec2Model ----
(***************************************************************************)
(* A model of the bestbuy catalog: the Product hierarchy (products.py),    *)
(* the Promotion strategies (promotions.py) and the Store (store.py).      *)
(*                                                                         *)
(* Objects live in a heap (object id -> fields), because the store's list  *)
(* and a shopping list hold references: two distinct objects may be equal  *)
(* by __eq__.  Every method is one action; what it raises or returns is    *)
(* recorded in `last`.                                                     *)
(*                                                                         *)
(* Money: prices are whole numbers and every amount a buy returns is kept  *)
(* in hundredths (an integer), so that price * 1.5 and                     *)
(* price * (100 - percent) / 100 are exact.  Python computes them in       *)
(* binary floating point; every amount of this model is far below 2^53     *)
(* hundredths, where the rational value and the float agree up to the      *)
(* final rounding of the one division.                                     *)
(***************************************************************************)
EXTENDS Integers, Sequences, FiniteSets, TLC

VARIABLES
    heap,      \* object id -> the fields of a Product object
    products,  \* Store.products: the catalog, a list of object ids
    pending,   \* the shopping list the caller has built for Store.order
    last       \* what the last call was, and what it raised or returned

vars == <<heap, products, pending, last>>

(***************************************************************************)
(* Bounds of the model.                                                    *)
(***************************************************************************)
MaxQty == 3       \* largest stock a product is constructed with or set to
MaxBuy == 4       \* largest quantity asked of buy
MaxMaximum == 2   \* largest per-order maximum of a LimitedProduct
MaxItems == 2     \* longest shopping list
MaxInitial == 2   \* longest list a Store is created with

Classes == {"Product", "NonStockedProduct", "LimitedProduct"}
Names == {"", "a"}
Prices == {-1, 10, 125}
Percents == {30}
OrderQuantities == {1, 2}  \* the quantities of a shopping-list item

(***************************************************************************)
(* promotions.py                                                           *)
(***************************************************************************)
None == [tag |-> "None", percent |-> 0]

\* Promotion.__init__ / PercentDiscount.__init__: the fields are stored as given.
SecondHalfPriceInit == [tag |-> "SecondHalfPrice", percent |-> 0]
ThirdOneFreeInit == [tag |-> "ThirdOneFree", percent |-> 0]
PercentDiscountInit(percent) == [tag |-> "PercentDiscount", percent |-> percent]

Promotions ==
    {SecondHalfPriceInit, ThirdOneFreeInit} \cup {PercentDiscountInit(c) : c \in Percents}

\* SecondHalfPriceApply, had only the second unit been at half price.
SecondHalfPriceOnce(price, quantity) ==
    IF quantity >= 2
    THEN price * (quantity * 100 - 50)
    ELSE price * quantity * 100

\* SecondHalfPrice.apply_promotion, in hundredths: (q // 2) * 1.5 + q % 2.
SecondHalfPriceApply(price, quantity) ==
    IF quantity >= 2
    THEN price * ((quantity \div 2) * 150 + (quantity % 2) * 100)
    ELSE price * quantity * 100

\* ThirdOneFreeApply, had the promotion started above three units.
ThirdOneFreeAboveThree(price, quantity) ==
    IF quantity > 3
    THEN price * (quantity - (quantity \div 3)) * 100
    ELSE price * quantity * 100

\* ThirdOneFree.apply_promotion, in hundredths.
ThirdOneFreeApply(price, quantity) ==
    IF quantity >= 3
    THEN price * (quantity - (quantity \div 3)) * 100
    ELSE price * quantity * 100

\* PercentDiscount.apply_promotion, in hundredths: price * (100 - percent) / 100.
PercentDiscountApply(percent, price, quantity) ==
    price * (100 - percent)

\* promotion.apply_promotion(product, quantity): the dispatch on the class.
ApplyPromotion(promotion, price, quantity) ==
    CASE promotion.tag = "SecondHalfPrice" -> SecondHalfPriceApply(price, quantity)
      [] promotion.tag = "ThirdOneFree" -> ThirdOneFreeApply(price, quantity)
      [] promotion.tag = "PercentDiscount" ->
            PercentDiscountApply(promotion.percent, price, quantity)

(***************************************************************************)
(* products.py                                                             *)
(***************************************************************************)
NoObject == [cls |-> "NoObject"]

\* How a call ends: it raises (nothing is returned: ret is empty) or it returns
\* (ret holds the one returned value).  obj is the object as the call leaves it.
Raise(err, obj) == [err |-> err, obj |-> obj, ret |-> <<>>]
Return(obj, ret) == [err |-> "none", obj |-> obj, ret |-> <<ret>>]

\* ProductInit, had the constructor not checked the quantity.
ProductInitAnyQuantity(cls, name, price, quantity, maximum) ==
    IF name = "" THEN Raise("validation", NoObject)
    ELSE IF price < 0 THEN Raise("validation", NoObject)
    ELSE Return([cls |-> cls, name |-> name, price |-> price,
                 quantity |-> quantity, active |-> TRUE,
                 promotion |-> None, maximum |-> maximum], 0)

\* Product.__init__
ProductInit(cls, name, price, quantity, maximum) ==
    IF name = "" THEN Raise("validation", NoObject)
    ELSE IF price < 0 THEN Raise("validation", NoObject)
    ELSE IF quantity < 0 THEN Raise("validation", NoObject)
    ELSE Return([cls |-> cls, name |-> name, price |-> price,
                 quantity |-> quantity, active |-> TRUE,
                 promotion |-> None, maximum |-> maximum], 0)

\* NonStockedProduct.__init__
NonStockedProductInit(name, price) ==
    ProductInit("NonStockedProduct", name, price, 0, 0)

\* LimitedProduct.__init__
LimitedProductInit(name, price, quantity, maximum) ==
    ProductInit("LimitedProduct", name, price, quantity, maximum)

\* The `quantity` property: NonStockedProduct overrides it to read 0.
Quantity(p) == IF p.cls = "NonStockedProduct" THEN 0 ELSE p.quantity

\* The `active` setter (called with a bool).
ActiveSet(p, value) == Return([p EXCEPT !.active = value], 0)

\* QuantitySet, had the setter not deactivated a product that reaches 0.
QuantitySetKeepsActive(p, new_quantity) ==
    IF p.cls = "NonStockedProduct" THEN Raise("quantity_readonly", p)
    ELSE IF new_quantity < 0 THEN Raise("invalid_quantity", p)
    ELSE Return([p EXCEPT !.quantity = new_quantity], 0)

\* QuantitySet, had NonStockedProduct not overridden the setter.
QuantitySetInherited(p, new_quantity) ==
    IF new_quantity < 0 THEN Raise("invalid_quantity", p)
    ELSE LET q == [p EXCEPT !.quantity = new_quantity]
         IN  IF Quantity(q) = 0 THEN ActiveSet(q, FALSE) ELSE Return(q, 0)

\* QuantitySet, had a positive quantity put the product back on sale.
QuantitySetReactivates(p, new_quantity) ==
    IF p.cls = "NonStockedProduct" THEN Raise("quantity_readonly", p)
    ELSE IF new_quantity < 0 THEN Raise("invalid_quantity", p)
    ELSE LET q == [p EXCEPT !.quantity = new_quantity]
         IN  ActiveSet(q, Quantity(q) # 0)

\* The `quantity` setter: NonStockedProduct's always raises.
QuantitySet(p, new_quantity) ==
    IF p.cls = "NonStockedProduct" THEN Raise("quantity_readonly", p)
    ELSE IF new_quantity < 0 THEN Raise("invalid_quantity", p)
    ELSE LET q == [p EXCEPT !.quantity = new_quantity]
         IN  IF Quantity(q) = 0 THEN ActiveSet(q, FALSE) ELSE Return(q, 0)

\* The `promotion` setter (called with None or a Promotion).
PromotionSet(p, promotion) == Return([p EXCEPT !.promotion = promotion], 0)

\* Charge, had buy ignored the promotion.
ChargeFullPrice(p, quantity) == p.price * quantity * 100

\* The tail shared by the three buy methods: the charge.
Charge(p, quantity) ==
    IF p.promotion # None
    THEN ApplyPromotion(p.promotion, p.price, quantity)
    ELSE p.price * quantity * 100

\* ProductBuy, had it sold what is left before refusing a larger request.
ProductBuySellsWhatIsLeft(p, quantity) ==
    IF ~p.active THEN Raise("inactive", p)
    ELSE IF quantity <= 0 THEN Raise("invalid_quantity", p)
    ELSE IF Quantity(p) < quantity
         THEN Raise("insufficient_stock", QuantitySet(p, 0).obj)
    ELSE LET s == QuantitySet(p, Quantity(p) - quantity)
         IN  IF s.err # "none" THEN Raise(s.err, s.obj)
             ELSE Return(s.obj, Charge(s.obj, quantity))

\* ProductBuy, had every sale taken one unit off the stock.
ProductBuyTakesOne(p, quantity) ==
    IF ~p.active THEN Raise("inactive", p)
    ELSE IF quantity <= 0 THEN Raise("invalid_quantity", p)
    ELSE IF Quantity(p) < quantity THEN Raise("insufficient_stock", p)
    ELSE LET s == QuantitySet(p, Quantity(p) - 1)
         IN  IF s.err # "none" THEN Raise(s.err, s.obj)
             ELSE Return(s.obj, Charge(s.obj, quantity))

\* Product.buy
ProductBuy(p, quantity) ==
    IF ~p.active THEN Raise("inactive", p)
    ELSE IF quantity <= 0 THEN Raise("invalid_quantity", p)
    ELSE IF Quantity(p) < quantity THEN Raise("insufficient_stock", p)
    ELSE LET s == QuantitySet(p, Quantity(p) - quantity)
         IN  IF s.err # "none" THEN Raise(s.err, s.obj)
             ELSE Return(s.obj, Charge(s.obj, quantity))

\* NonStockedProduct.buy
NonStockedProductBuy(p, quantity) ==
    IF quantity <= 0 THEN Raise("invalid_quantity", p)
    ELSE Return(p, Charge(p, quantity))

\* LimitedProductBuy, had it looked at the stock before the maximum.
LimitedProductBuyStockFirst(p, quantity) ==
    IF ~p.active THEN Raise("inactive", p)
    ELSE IF quantity <= 0 THEN Raise("invalid_quantity", p)
    ELSE IF Quantity(p) < quantity THEN Raise("insufficient_stock", p)
    ELSE IF quantity > p.maximum THEN Raise("maximum_exceeded", p)
    ELSE LET s == QuantitySet(p, Quantity(p) - quantity)
         IN  IF s.err # "none" THEN Raise(s.err, s.obj)
             ELSE Return(s.obj, Charge(s.obj, quantity))

\* LimitedProduct.buy
LimitedProductBuy(p, quantity) ==
    IF ~p.active THEN Raise("inactive", p)
    ELSE IF quantity <= 0 THEN Raise("invalid_quantity", p)
    ELSE IF quantity > p.maximum THEN Raise("maximum_exceeded", p)
    ELSE IF Quantity(p) < quantity THEN Raise("insufficient_stock", p)
    ELSE LET s == QuantitySet(p, Quantity(p) - quantity)
         IN  IF s.err # "none" THEN Raise(s.err, s.obj)
             ELSE Return(s.obj, Charge(s.obj, quantity))

\* product.buy(quantity): the dispatch on the class.
BuyResult(p, quantity) ==
    CASE p.cls = "Product" -> ProductBuy(p, quantity)
      [] p.cls = "NonStockedProduct" -> NonStockedProductBuy(p, quantity)
      [] p.cls = "LimitedProduct" -> LimitedProductBuy(p, quantity)

\* Eq, had it compared the prices alone (as __lt__ and __gt__ do).
EqPriceOnly(p, other) == p.price = other.price

\* Eq, had it held between products of the same class only.
EqSameClass(p, other) ==
    p.cls = other.cls /\ p.name = other.name /\ p.price = other.price

\* Product.__eq__
Eq(p, other) == p.name = other.name /\ p.price = other.price

\* hash(str): a number the characters determine, 0 for the empty string;
\* different strings may share it.
StrHash(name) == Len(name)

\* Product.__hash__
Hash(p) == StrHash(p.name)

(***************************************************************************)
(* A product on its own: construction, the setters and buy.                *)
(***************************************************************************)
Idle == [op |-> "idle", obj |-> 0, arg |-> 0, err |-> "none", ret |-> <<>>, idx |-> 0]

Called(op, obj, arg, r) ==
    [op |-> op, obj |-> obj, arg |-> arg, err |-> r.err, ret |-> r.ret, idx |-> 0]

\* Product(...), NonStockedProduct(...), LimitedProduct(...)
Construct(cls, name, price, quantity, maximum) ==
    CASE cls = "Product" -> ProductInit("Product", name, price, quantity, 0)
      [] cls = "NonStockedProduct" -> NonStockedProductInit(name, price)
      [] cls = "LimitedProduct" -> LimitedProductInit(name, price, quantity, maximum)

\* One product is constructed; a construction that raises yields no object.
NewProduct(cls, name, price, quantity, maximum) ==
    /\ Len(heap) = 0
    /\ LET r == Construct(cls, name, price, quantity, maximum)
       IN  /\ heap' = IF r.err = "none" THEN Append(heap, r.obj) ELSE heap
           /\ last' = Called("new", Len(heap'), quantity, r)
    /\ UNCHANGED <<products, pending>>

\* product.buy(quantity)
Buy(o, quantity) ==
    /\ o \in DOMAIN heap
    /\ LET r == BuyResult(heap[o], quantity)
       IN  /\ heap' = [heap EXCEPT ![o] = r.obj]
           /\ last' = Called("buy", o, quantity, r)
    /\ UNCHANGED <<products, pending>>

\* product.quantity = new_quantity
SetQuantity(o, new_quantity) ==
    /\ o \in DOMAIN heap
    /\ LET r == QuantitySet(heap[o], new_quantity)
       IN  /\ heap' = [heap EXCEPT ![o] = r.obj]
           /\ last' = Called("set_quantity", o, new_quantity, r)
    /\ UNCHANGED <<products, pending>>

\* product.active = value
SetActive(o, value) ==
    /\ o \in DOMAIN heap
    /\ LET r == ActiveSet(heap[o], value)
       IN  /\ heap' = [heap EXCEPT ![o] = r.obj]
           /\ last' = Called("set_active", o, IF value THEN 1 ELSE 0, r)
    /\ UNCHANGED <<products, pending>>

\* product.promotion = promotion
SetPromotion(o, promotion) ==
    /\ o \in DOMAIN heap
    /\ LET r == PromotionSet(heap[o], promotion)
       IN  /\ heap' = [heap EXCEPT ![o] = r.obj]
           /\ last' = Called("set_promotion", o, 0, r)
    /\ UNCHANGED <<products, pending>>

Init ==
    /\ heap = <<>>
    /\ products = <<>>
    /\ pending = <<>>
    /\ last = Idle

Next ==
    \/ \E cls \in Classes, name \in Names, price \in Prices,
          quantity \in -1..MaxQty, maximum \in 1..MaxMaximum :
            NewProduct(cls, name, price, quantity, maximum)
    \/ \E o \in DOMAIN heap, quantity \in -1..MaxBuy : Buy(o, quantity)
    \/ \E o \in DOMAIN heap, new_quantity \in -1..MaxQty : SetQuantity(o, new_quantity)
    \/ \E o \in DOMAIN heap, value \in BOOLEAN : SetActive(o, value)
    \/ \E o \in DOMAIN heap, promotion \in Promotions \cup {None} : SetPromotion(o, promotion)

Spec == Init /\ [][Next]_vars

(***************************************************************************)
(* store.py                                                                *)
(***************************************************************************)
\* `product in self.products`: list membership, decided by Product.__eq__.
Contains(h, list, o) == \E i \in DOMAIN list : Eq(h[list[i]], h[o])

\* Store.__init__
StoreInit(list) == IF list # <<>> THEN list ELSE <<>>

\* Store.add_product: the product is appended unless its name is already there.
AddProductResult(h, list, o) ==
    IF \A i \in DOMAIN list : h[list[i]].name # h[o].name
    THEN Append(list, o)
    ELSE list

\* list.remove(product): the first element equal to it goes.
ListRemove(h, list, o) ==
    LET i == CHOOSE j \in DOMAIN list :
                 /\ Eq(h[list[j]], h[o])
                 /\ \A k \in 1..(j - 1) : ~Eq(h[list[k]], h[o])
    IN  SubSeq(list, 1, i - 1) \o SubSeq(list, i + 1, Len(list))

\* RemoveProductResult, had it looked for the name as add_product does.
RemoveProductResultByName(h, list, o) ==
    IF \E i \in DOMAIN list : h[list[i]].name = h[o].name
    THEN LET i == CHOOSE j \in DOMAIN list :
                      /\ h[list[j]].name = h[o].name
                      /\ \A k \in 1..(j - 1) : h[list[k]].name # h[o].name
         IN  SubSeq(list, 1, i - 1) \o SubSeq(list, i + 1, Len(list))
    ELSE list

\* Store.remove_product
RemoveProductResult(h, list, o) ==
    IF Contains(h, list, o) THEN ListRemove(h, list, o) ELSE list

\* SumQuantity, had it left the inactive products out.
RECURSIVE SumQuantityActiveOnly(_, _)
SumQuantityActiveOnly(h, list) ==
    IF list = <<>> THEN 0
    ELSE (IF h[Head(list)].active THEN Quantity(h[Head(list)]) ELSE 0)
         + SumQuantityActiveOnly(h, Tail(list))

\* Store.get_total_quantity
RECURSIVE SumQuantity(_, _)
SumQuantity(h, list) ==
    IF list = <<>> THEN 0
    ELSE Quantity(h[Head(list)]) + SumQuantity(h, Tail(list))

GetTotalQuantity(h, list) == SumQuantity(h, list)

\* product.is_active(): Product, NonStockedProduct and LimitedProduct have the
\* `active` property and no attribute of this name, so the lookup raises
\* AttributeError.
IsActiveResult(p) == Raise("attribute", p)

\* Store.get_all_products: [product for product in self.products if product.is_active()]
RECURSIVE GetAllProductsResult(_, _)
GetAllProductsResult(h, list) ==
    IF list = <<>> THEN [err |-> "none", ret |-> << <<>> >>]
    ELSE LET r == IsActiveResult(h[Head(list)])
         IN  IF r.err # "none" THEN [err |-> r.err, ret |-> <<>>]
             ELSE LET rest == GetAllProductsResult(h, Tail(list))
                  IN  IF rest.err # "none" THEN rest
                      ELSE [err |-> "none",
                            ret |-> << (IF r.ret[1] THEN <<Head(list)>> ELSE <<>>)
                                       \o rest.ret[1] >>]

\* OrderFrom, had the loop assigned the charge to the total instead of adding it.
RECURSIVE OrderFromKeepsLastCharge(_, _, _, _, _)
OrderFromKeepsLastCharge(h, list, shopping_list, i, total_price) ==
    IF i > Len(shopping_list)
    THEN [err |-> "none", heap |-> h, ret |-> <<total_price>>, idx |-> 0]
    ELSE LET product == shopping_list[i][1]
             quantity == shopping_list[i][2]
         IN  IF ~Contains(h, list, product)
             THEN [err |-> "not_found", heap |-> h, ret |-> <<>>, idx |-> i]
             ELSE LET r == BuyResult(h[product], quantity)
                      h2 == [h EXCEPT ![product] = r.obj]
                  IN  IF r.err # "none"
                      THEN [err |-> r.err, heap |-> h2, ret |-> <<>>, idx |-> i]
                      ELSE OrderFromKeepsLastCharge(h2, list, shopping_list, i + 1,
                                                    r.ret[1])

\* Store.order, from item i of the shopping list on, total_price so far.
\* It ends with the heap as the loop left it, and raising (idx is the item that
\* raised) or returning the total.
RECURSIVE OrderFrom(_, _, _, _, _)
OrderFrom(h, list, shopping_list, i, total_price) ==
    IF i > Len(shopping_list)
    THEN [err |-> "none", heap |-> h, ret |-> <<total_price>>, idx |-> 0]
    ELSE LET product == shopping_list[i][1]
             quantity == shopping_list[i][2]
         IN  IF ~Contains(h, list, product)
             THEN [err |-> "not_found", heap |-> h, ret |-> <<>>, idx |-> i]
             ELSE LET r == BuyResult(h[product], quantity)
                      h2 == [h EXCEPT ![product] = r.obj]
                  IN  IF r.err # "none"
                      THEN [err |-> r.err, heap |-> h2, ret |-> <<>>, idx |-> i]
                      ELSE OrderFrom(h2, list, shopping_list, i + 1,
                                     total_price + r.ret[1])

\* OrderResult, had a failing order put the stock back.
OrderResultRollsBack(h, list, shopping_list) ==
    LET r == OrderFrom(h, list, shopping_list, 1, 0)
    IN  IF r.err # "none" THEN [r EXCEPT !.heap = h] ELSE r

\* Store.order
OrderResult(h, list, shopping_list) == OrderFrom(h, list, shopping_list, 1, 0)

(***************************************************************************)
(* A store over four products, after the fixture of the test suite         *)
(* (a Product with SecondHalfPrice, a LimitedProduct of maximum 1, a       *)
(* NonStockedProduct with 30% off) with small stocks, and a fourth product *)
(* that equals the first without being it.  The store is created with the  *)
(* first three.                                                            *)
(***************************************************************************)
WithPromotion(r, promotion) == PromotionSet(r.obj, promotion).obj

Fixture ==
    << WithPromotion(Construct("Product", "a", 10, 2, 0), SecondHalfPriceInit),
       Construct("LimitedProduct", "b", 10, 2, 1).obj,
       WithPromotion(Construct("NonStockedProduct", "c", 125, 0, 0),
                     PercentDiscountInit(30)),
       Construct("Product", "a", 10, 1, 0).obj >>

FixtureStore == <<1, 2, 3>>

Items == (DOMAIN Fixture) \X OrderQuantities

RECURSIVE ListsOfLen(_)
ListsOfLen(n) ==
    IF n = 0 THEN {<<>>}
    ELSE {Append(l, item) : l \in ListsOfLen(n - 1), item \in Items}

ShoppingLists == UNION {ListsOfLen(n) : n \in 0..MaxItems}

\* The caller builds a shopping list (make_order collects the items).
Submit(shopping_list) ==
    /\ pending = <<>>
    /\ pending' = <<shopping_list>>
    /\ last' = Idle
    /\ UNCHANGED <<heap, products>>

\* store.order(shopping_list), the whole call.
Order ==
    /\ pending # <<>>
    /\ LET r == OrderResult(heap, products, pending[1])
       IN  /\ heap' = r.heap
           /\ last' = [op |-> "order", obj |-> 0, arg |-> Len(pending[1]),
                       err |-> r.err, ret |-> r.ret, idx |-> r.idx]
    /\ pending' = <<>>
    /\ UNCHANGED products

\* store.add_product(product)
AddProduct(o) ==
    /\ pending = <<>>
    /\ o \in DOMAIN heap
    /\ products' = AddProductResult(heap, products, o)
    /\ last' = [Idle EXCEPT !.op = "add_product", !.obj = o]
    /\ UNCHANGED <<heap, pending>>

\* store.remove_product(product)
RemoveProduct(o) ==
    /\ pending = <<>>
    /\ o \in DOMAIN heap
    /\ products' = RemoveProductResult(heap, products, o)
    /\ last' = [Idle EXCEPT !.op = "remove_product", !.obj = o]
    /\ UNCHANGED <<heap, pending>>

StoreSpecInit ==
    /\ heap = Fixture
    /\ products = StoreInit(FixtureStore)
    /\ pending = <<>>
    /\ last = Idle

StoreNext ==
    \/ \E shopping_list \in ShoppingLists : Submit(shopping_list)
    \/ Order
    \/ \E o \in DOMAIN heap : AddProduct(o)
    \/ \E o \in DOMAIN heap : RemoveProduct(o)

StoreSpec == StoreSpecInit /\ [][StoreNext]_vars

(***************************************************************************)
(* Catalogs over four products: two Products that are equal without being  *)
(* the same object, a LimitedProduct of their name at another price, and a *)
(* NonStockedProduct.                                                      *)
(*                                                                         *)
(* CatalogSpec: the store is created with any list of at most MaxInitial   *)
(* of them, then add_product and remove_product are called.                *)
(* InventorySpec: the store is created with the four, then products are    *)
(* added, removed, bought, activated and deactivated, and the two queries  *)
(* are asked.                                                              *)
(***************************************************************************)
CatalogFixture ==
    << Construct("Product", "a", 10, 2, 0).obj,
       Construct("Product", "a", 10, 1, 0).obj,
       Construct("LimitedProduct", "a", 125, 1, 1).obj,
       Construct("NonStockedProduct", "c", 125, 0, 0).obj >>

RECURSIVE SeqsOfLen(_, _)
SeqsOfLen(S, n) ==
    IF n = 0 THEN {<<>>}
    ELSE {Append(l, x) : l \in SeqsOfLen(S, n - 1), x \in S}

InitialLists == UNION {SeqsOfLen(DOMAIN CatalogFixture, n) : n \in 0..MaxInitial}

\* store.get_total_quantity()
TotalQuantity ==
    /\ pending = <<>>
    /\ last' = [Idle EXCEPT !.op = "get_total_quantity",
                            !.ret = <<GetTotalQuantity(heap, products)>>]
    /\ UNCHANGED <<heap, products, pending>>

\* store.get_all_products()
AllProducts ==
    /\ pending = <<>>
    /\ LET r == GetAllProductsResult(heap, products)
       IN  last' = [Idle EXCEPT !.op = "get_all_products", !.err = r.err, !.ret = r.ret]
    /\ UNCHANGED <<heap, products, pending>>

CatalogSpecInit ==
    /\ heap = CatalogFixture
    /\ \E list \in InitialLists : products = StoreInit(list)
    /\ pending = <<>>
    /\ last = Idle

CatalogNext ==
    \/ \E o \in DOMAIN heap : AddProduct(o)
    \/ \E o \in DOMAIN heap : RemoveProduct(o)

CatalogSpec == CatalogSpecInit /\ [][CatalogNext]_vars

InventoryStore == <<1, 2, 3, 4>>

InventorySpecInit ==
    /\ heap = CatalogFixture
    /\ products = StoreInit(InventoryStore)
    /\ pending = <<>>
    /\ last = Idle

InventoryNext ==
    \/ \E o \in DOMAIN heap : AddProduct(o)
    \/ \E o \in DOMAIN heap : RemoveProduct(o)
    \/ \E o \in DOMAIN heap, quantity \in OrderQuantities : Buy(o, quantity)
    \/ \E o \in DOMAIN heap, value \in BOOLEAN : SetActive(o, value)
    \/ TotalQuantity
    \/ AllProducts

InventorySpec == InventorySpecInit /\ [][InventoryNext]_vars

(***************************************************************************)
(* Promotions as they are created.  PromotionSpec: one product of any      *)
(* class exists; a promotion is created from a name and, for               *)
(* PercentDiscount, a percent; it is assigned to the product, and the      *)
(* product is bought.                                                      *)
(***************************************************************************)
PromotionClasses == {"SecondHalfPrice", "ThirdOneFree", "PercentDiscount"}
PromotionNames == {"", "x"}
AnyPercents == {-10, 30, 130}

\* Promotion.__init__: the name is stored as given.
PromotionInit(cls, name) == Return([tag |-> cls, name |-> name, percent |-> 0], 0)

\* PercentDiscount.__init__: super().__init__(name), then the percent is stored
\* as given.
PercentDiscountConstruct(name, percent) ==
    LET r == PromotionInit("PercentDiscount", name)
    IN  IF r.err # "none" THEN r
        ELSE Return([r.obj EXCEPT !.percent = percent], 0)

\* SecondHalfPrice(name), ThirdOneFree(name), PercentDiscount(name, percent)
ConstructPromotion(cls, name, percent) ==
    IF cls = "PercentDiscount" THEN PercentDiscountConstruct(name, percent)
    ELSE PromotionInit(cls, name)

\* One promotion is created; a creation that raises yields no object.
NewPromotion(cls, name, percent) ==
    /\ Len(heap) = 1
    /\ LET r == ConstructPromotion(cls, name, percent)
       IN  /\ heap' = IF r.err = "none" THEN Append(heap, r.obj) ELSE heap
           /\ last' = Called("new_promotion", Len(heap'), percent, r)
    /\ UNCHANGED <<products, pending>>

PromotionSpecInit ==
    /\ \E cls \in Classes : heap = <<Construct(cls, "a", 10, 2, 1).obj>>
    /\ products = <<>>
    /\ pending = <<>>
    /\ last = Idle

PromotionNext ==
    \/ \E cls \in PromotionClasses, name \in PromotionNames, percent \in AnyPercents :
            /\ cls # "PercentDiscount" => percent = 30
            /\ NewPromotion(cls, name, percent)
    \/ \E o \in DOMAIN heap \ {1} : SetPromotion(1, heap[o])
    \/ \E quantity \in OrderQuantities : Buy(1, quantity)

PromotionSpec == PromotionSpecInit /\ [][PromotionNext]_vars

(***************************************************************************)
(* Two products compared.  EqualitySpec: two products of any classes,      *)
(* names, prices and quantities exist; either is bought, deactivated or    *)
(* given a promotion, and they are compared and hashed.                    *)
(***************************************************************************)
EqNames == {"a", "b"}
EqPrices == {10, 125}

\* product == other
EqCall(o, other) ==
    /\ o \in DOMAIN heap
    /\ other \in DOMAIN heap
    /\ last' = [Idle EXCEPT !.op = "eq", !.obj = o, !.arg = other,
                            !.ret = <<Eq(heap[o], heap[other])>>]
    /\ UNCHANGED <<heap, products, pending>>

\* hash(product)
HashCall(o) ==
    /\ o \in DOMAIN heap
    /\ last' = [Idle EXCEPT !.op = "hash", !.obj = o, !.ret = <<Hash(heap[o])>>]
    /\ UNCHANGED <<heap, products, pending>>

EqualitySpecInit ==
    /\ \E c1 \in Classes, c2 \in Classes, n1 \in EqNames, n2 \in EqNames,
          p1 \in EqPrices, p2 \in EqPrices,
          q1 \in OrderQuantities, q2 \in OrderQuantities :
            heap = << Construct(c1, n1, p1, q1, 1).obj,
                      Construct(c2, n2, p2, q2, 1).obj >>
    /\ products = <<>>
    /\ pending = <<>>
    /\ last = Idle

EqualityNext ==
    \/ \E o \in DOMAIN heap : Buy(o, 1)
    \/ \E o \in DOMAIN heap : SetActive(o, FALSE)
    \/ \E o \in DOMAIN heap : SetPromotion(o, SecondHalfPriceInit)
    \/ \E o \in DOMAIN heap, other \in DOMAIN heap : EqCall(o, other)
    \/ \E o \in DOMAIN heap : HashCall(o)

EqualitySpec == EqualitySpecInit /\ [][EqualityNext]_vars

(***************************************************************************)
(* Properties of a product on its own, checked under Spec.                 *)
(***************************************************************************)
Stocked(p) == p.cls \in {"Product", "LimitedProduct"}

\* C1: on an active Product or LimitedProduct holding Q units, buy(k) with
\* 0 < k <= Q (and k <= maximum for a LimitedProduct) succeeds, leaves the
\* quantity at exactly Q - k, and leaves the product inactive if and only if
\* Q - k = 0.
C1_BuyDecrementsStock ==
    [][\A o \in DOMAIN heap, k \in 1..MaxBuy :
          ( /\ Buy(o, k)
            /\ Stocked(heap[o])
            /\ heap[o].active
            /\ k <= Quantity(heap[o])
            /\ (heap[o].cls = "LimitedProduct" => k <= heap[o].maximum) )
          => /\ last'.err = "none"
             /\ Quantity(heap'[o]) = Quantity(heap[o]) - k
             /\ (~heap'[o].active <=> Quantity(heap[o]) - k = 0)]_vars

\* A LimitedProduct sold out by one buy of two units: it is now inactive.
C1_Witness ==
    /\ last.op = "buy"
    /\ last.err = "none"
    /\ last.arg = 2
    /\ heap[last.obj].cls = "LimitedProduct"
    /\ Quantity(heap[last.obj]) = 0
    /\ ~heap[last.obj].active

\* C3: a buy that raises (inactive product, non-positive quantity, maximum
\* exceeded, insufficient stock) leaves the product as it was: quantity,
\* active and promotion.
C3_FailedBuyChangesNothing ==
    [][\A o \in DOMAIN heap, k \in -1..MaxBuy :
          (Buy(o, k) /\ last'.err # "none")
          => /\ Quantity(heap'[o]) = Quantity(heap[o])
             /\ heap'[o].active = heap[o].active
             /\ heap'[o].promotion = heap[o].promotion
             /\ heap' = heap]_vars

\* A buy of more than the stock of a Product was refused; the stock is there.
C3_Witness ==
    /\ last.op = "buy"
    /\ last.err = "insufficient_stock"
    /\ heap[last.obj].cls = "Product"
    /\ heap[last.obj].active
    /\ Quantity(heap[last.obj]) >= 1
    /\ last.arg > Quantity(heap[last.obj])

\* C4: buy(k) on a product that is not active raises the inactive-product
\* error and sells nothing, whatever the class and whatever k.
C4_InactiveBuyRaises ==
    [][\A o \in DOMAIN heap, k \in -1..MaxBuy :
          (Buy(o, k) /\ ~heap[o].active)
          => /\ last'.err = "inactive"
             /\ last'.ret = <<>>
             /\ heap' = heap]_vars

\* C5: LimitedProduct.buy(k) raises for every k > maximum, whatever the stock,
\* and leaves the quantity alone; on an active one, when k exceeds the maximum
\* and the stock, the error is the maximum-exceeded one.
C5_LimitedCap ==
    [][\A o \in DOMAIN heap, k \in -1..MaxBuy :
          (Buy(o, k) /\ heap[o].cls = "LimitedProduct" /\ k > heap[o].maximum)
          => /\ last'.err # "none"
             /\ Quantity(heap'[o]) = Quantity(heap[o])
             /\ (heap[o].active /\ k > Quantity(heap[o])
                   => last'.err = "maximum_exceeded")]_vars

\* An active LimitedProduct was asked for more than its maximum and its stock.
C5_Witness ==
    /\ last.op = "buy"
    /\ last.err = "maximum_exceeded"
    /\ heap[last.obj].cls = "LimitedProduct"
    /\ heap[last.obj].active
    /\ last.arg > heap[last.obj].maximum
    /\ last.arg > Quantity(heap[last.obj])
    /\ Quantity(heap[last.obj]) >= 1

\* C6: the quantity of a NonStockedProduct reads 0 in every state: no buy
\* changes it, setting it raises and changes nothing, and a buy that succeeds
\* leaves the active flag as it was.
C6_NonStockedQuantityZero ==
    [][/\ \A o \in DOMAIN heap' :
             heap'[o].cls = "NonStockedProduct"
             => Quantity(heap'[o]) = 0 /\ heap'[o].quantity = 0
       /\ \A o \in DOMAIN heap, q \in -1..MaxQty :
             (SetQuantity(o, q) /\ heap[o].cls = "NonStockedProduct")
             => last'.err # "none" /\ heap' = heap
       /\ \A o \in DOMAIN heap, k \in -1..MaxBuy :
             (Buy(o, k) /\ heap[o].cls = "NonStockedProduct" /\ last'.err = "none")
             => heap'[o].active = heap[o].active]_vars

\* A NonStockedProduct sold the largest quantity and still reads 0.
C6_Witness ==
    /\ last.op = "buy"
    /\ last.err = "none"
    /\ last.arg = MaxBuy
    /\ heap[last.obj].cls = "NonStockedProduct"
    /\ heap[last.obj].active
    /\ Quantity(heap[last.obj]) = 0

C10_PercentDiscountTotal ==
    (last.op = "buy" /\ last.err = "none"
        /\ heap[last.obj].promotion.tag = "PercentDiscount")
    => LET p == heap[last.obj]
       IN  last.ret = <<last.arg * p.price * (100 - p.promotion.percent)>>

(***************************************************************************)
(* Properties of Store.order, checked under StoreSpec.                     *)
(***************************************************************************)
\* The units of product o that the items before position i ask for.
RECURSIVE UnitsBefore(_, _, _)
UnitsBefore(shopping_list, i, o) ==
    IF i <= 1 THEN 0
    ELSE UnitsBefore(shopping_list, i - 1, o)
         + (IF shopping_list[i - 1][1] = o THEN shopping_list[i - 1][2] ELSE 0)

\* Product p once n of its units have been bought.
AfterBought(p, n) ==
    IF n = 0 \/ ~Stocked(p) THEN p
    ELSE [p EXCEPT !.quantity = p.quantity - n, !.active = (p.quantity - n > 0)]

\* o has the name and the price of a product of the catalog.
InCatalog(o) ==
    \E j \in DOMAIN products :
        /\ heap[products[j]].name = heap[o].name
        /\ heap[products[j]].price = heap[o].price

\* What buying an item raises in heap h ("none" when it is sold).
ItemError(h, item) ==
    IF ~InCatalog(item[1]) THEN "not_found" ELSE BuyResult(h[item[1]], item[2]).err

\* C2: Store.order goes through the list in order and rolls nothing back: when
\* the first item that fails is item i, the call raises that item's error and
\* returns no total, every item before i stays bought (its units are gone, and
\* a product sold out stays inactive), and item i and the items after it
\* change nothing.
C2_OrderNoRollback ==
    [][(Order /\ last'.err # "none")
       => LET l == pending[1]
              i == last'.idx
          IN  /\ i \in 1..Len(l)
              /\ last'.ret = <<>>
              /\ \A j \in 1..(i - 1) : InCatalog(l[j][1])
              /\ \A o \in DOMAIN heap :
                    heap'[o] = AfterBought(heap[o], UnitsBefore(l, i, o))
              /\ last'.err = ItemError(heap', l[i])
              /\ products' = products]_vars

\* An order failed at its second item for lack of stock, and a unit of the
\* first product is gone.
C2_Witness ==
    /\ last.op = "order"
    /\ last.err = "insufficient_stock"
    /\ last.idx = 2
    /\ Quantity(heap[1]) = 1
    /\ Quantity(heap[2]) = 2
    /\ Quantity(heap[4]) = 1

\* C7: Store.order raises the product-not-found error as soon as it reaches an
\* item whose product equals (name and price) no product of the catalog, and
\* does not call buy on it.
C7_OrderNotFound ==
    [][Order
       => LET l == pending[1]
          IN  \A i \in 1..Len(l) :
                  ~InCatalog(l[i][1])
                  => /\ last'.err # "none"
                     /\ last'.idx <= i
                     /\ last'.idx = i
                        => /\ last'.err = "not_found"
                           /\ heap'[l[i][1]] =
                                 AfterBought(heap[l[i][1]], UnitsBefore(l, i, l[i][1]))]_vars

\* An order bought its first item and found its second product missing.
C7_Witness ==
    /\ last.op = "order"
    /\ last.err = "not_found"
    /\ last.idx = 2
    /\ \E o \in DOMAIN heap : Quantity(heap[o]) < Quantity(Fixture[o])

\* The charges that buying the items from position i on returns, one after the
\* other on the stock as the buys leave it.
RECURSIVE ChargesInOrder(_, _, _)
ChargesInOrder(h, shopping_list, i) ==
    IF i > Len(shopping_list) THEN 0
    ELSE LET r == BuyResult(h[shopping_list[i][1]], shopping_list[i][2])
         IN  r.ret[1]
             + ChargesInOrder([h EXCEPT ![shopping_list[i][1]] = r.obj],
                              shopping_list, i + 1)

\* C8: when Store.order succeeds, the total it returns is the sum, over the
\* items in list order, of what each product.buy(quantity) returns when the
\* buys are applied in that order.
C8_OrderTotal ==
    [][(Order /\ last'.err = "none")
       => last'.ret = <<ChargesInOrder(heap, pending[1], 1)>>]_vars

\* Two units under SecondHalfPrice (15.00) and one unit at 30% off 125 (87.50).
C8_Witness ==
    /\ last.op = "order"
    /\ last.err = "none"
    /\ last.arg = 2
    /\ last.ret = <<1500 + 8750>>
    /\ Quantity(heap[1]) = 0

(***************************************************************************)
(* Properties of the promotions, checked under Spec through buy.           *)
(***************************************************************************)
\* The buy that `last` records succeeded on a product under promotion `tag`.
Bought(tag) ==
    /\ last.op = "buy"
    /\ last.err = "none"
    /\ heap[last.obj].promotion.tag = tag

\* C11: SecondHalfPrice charges unit_price * ((q // 2) * 1.5 + q % 2) for
\* every quantity q >= 2 and unit_price * q for q < 2 (a price of 10 gives
\* 10, 15, 25 for q = 1, 2, 3), and never more than unit_price * q.
C11_SecondHalfPrice ==
    Bought("SecondHalfPrice")
    => LET price == heap[last.obj].price
           q == last.arg
           charged == last.ret[1]
       IN  /\ q >= 2 => charged = price * ((q \div 2) * 150 + (q % 2) * 100)
           /\ q < 2 => charged = price * q * 100
           /\ charged <= price * q * 100
           /\ (price = 10 /\ q = 1) => charged = 1000
           /\ (price = 10 /\ q = 2) => charged = 1500
           /\ (price = 10 /\ q = 3) => charged = 2500

\* Four units at 10 under SecondHalfPrice were charged 30.00.
C11_Witness ==
    /\ Bought("SecondHalfPrice")
    /\ heap[last.obj].price = 10
    /\ last.arg = 4
    /\ last.ret = <<3000>>

\* C12: ThirdOneFree charges unit_price * (q - q // 3) for every quantity
\* q >= 3 and unit_price * q for q < 3 (a price of 10 gives 20, 20, 30 for
\* q = 2, 3, 4).
C12_ThirdOneFree ==
    Bought("ThirdOneFree")
    => LET price == heap[last.obj].price
           q == last.arg
           charged == last.ret[1]
       IN  /\ q >= 3 => charged = price * (q - (q \div 3)) * 100
           /\ q < 3 => charged = price * q * 100
           /\ (price = 10 /\ q = 2) => charged = 2000
           /\ (price = 10 /\ q = 3) => charged = 2000
           /\ (price = 10 /\ q = 4) => charged = 3000

\* Three units at 10 under ThirdOneFree were charged 20.00, the stock is gone.
C12_Witness ==
    /\ Bought("ThirdOneFree")
    /\ heap[last.obj].price = 10
    /\ last.arg = 3
    /\ last.ret = <<2000>>
    /\ Stocked(heap[last.obj])
    /\ Quantity(heap[last.obj]) = 0

(***************************************************************************)
(* Properties of the catalog, checked under CatalogSpec.                   *)
(***************************************************************************)

\* The catalog without its i-th element.
Without(list, i) ==
    [j \in 1..(Len(list) - 1) |-> IF j < i THEN list[j] ELSE list[j + 1]]

\* C13: add_product appends the product when no product equal to it (same
\* name and same price) is in the catalog, and otherwise leaves the catalog
\* unchanged; it raises nothing either way.
C13_AddIffNoEqual ==
    [][\A o \in DOMAIN heap :
          AddProduct(o) =>
              /\ last'.err = "none"
              /\ products' = IF \E i \in DOMAIN products :
                                   /\ heap[products[i]].name = heap[o].name
                                   /\ heap[products[i]].price = heap[o].price
                              THEN products
                              ELSE Append(products, o)]_vars

\* C14: no two places of the catalog hold products that are equal by name and
\* price.
C14_NoDuplicates ==
    \A i, j \in DOMAIN products :
        i # j => ~ /\ heap[products[i]].name = heap[products[j]].name
                   /\ heap[products[i]].price = heap[products[j]].price

RECURSIVE UnitsOnShelves(_)
UnitsOnShelves(n) ==
    IF n = 0 THEN 0
    ELSE UnitsOnShelves(n - 1)
         + Cardinality({i \in DOMAIN products : products[i] = n})
           * (IF Stocked(heap[n]) THEN heap[n].quantity ELSE 0)

C17_AllProducts ==
    last.op = "get_all_products" =>
        /\ last.err = "none"
        /\ last.ret = <<SelectSeq(products, LAMBDA o : heap[o].active)>>

(***************************************************************************)
(* Invariants of a product, checked under Spec.                            *)
(***************************************************************************)

\* C18: a Product or LimitedProduct whose quantity is 0 is inactive, in every
\* state: after construction, quantity sets, activations and buys.
C18_ZeroQuantityInactive ==
    \A o \in DOMAIN heap :
        (Stocked(heap[o]) /\ Quantity(heap[o]) = 0) => ~heap[o].active

\* C19: every product has quantity >= 0 and price >= 0 after every call; a
\* construction with an empty name, a negative price or a negative quantity
\* raises and yields no object; setting a negative quantity raises and leaves
\* the product as it was.
C19_NonNegative ==
    [][/\ \A o \in DOMAIN heap' :
             /\ Quantity(heap'[o]) >= 0
             /\ heap'[o].quantity >= 0
             /\ heap'[o].price >= 0
       /\ \A cls \in Classes, name \in Names, price \in Prices,
             quantity \in -1..MaxQty, maximum \in 1..MaxMaximum :
             (/\ NewProduct(cls, name, price, quantity, maximum)
              /\ \/ name = ""
                 \/ price < 0
                 \/ quantity < 0 /\ cls # "NonStockedProduct")
             => last'.err # "none" /\ heap' = <<>>
       /\ \A o \in DOMAIN heap, new_quantity \in -1..MaxQty :
             (SetQuantity(o, new_quantity) /\ new_quantity < 0)
             => last'.err # "none" /\ heap' = heap]_vars

\* A product with the largest stock has refused a negative quantity.
C19_Witness ==
    /\ last.op = "set_quantity"
    /\ last.arg = -1
    /\ last.err = "invalid_quantity"
    /\ Stocked(heap[last.obj])
    /\ Quantity(heap[last.obj]) = MaxQty

(***************************************************************************)
(* The per-order maximum within one order, checked under StoreSpec.        *)
(***************************************************************************)

\* C20: one call of order takes at most `maximum` units of a LimitedProduct
\* off its stock, whatever the items of the shopping list.
C20_LimitedCapPerOrder ==
    [][Order =>
          \A o \in DOMAIN heap :
              heap[o].cls = "LimitedProduct"
              => heap[o].quantity - heap'[o].quantity <= heap[o].maximum]_vars

(***************************************************************************)
(* Reactivation, checked under Spec.                                       *)
(***************************************************************************)

\* C21: an inactive Product or LimitedProduct stays inactive through every buy
\* and every quantity set, a positive quantity included; its flag goes from
\* false to true only in an assignment `active = True`.
C21_ReactivationExplicit ==
    [][\A o \in DOMAIN heap :
          (Stocked(heap[o]) /\ ~heap[o].active) =>
              /\ \A k \in -1..MaxBuy : Buy(o, k) => ~heap'[o].active
              /\ \A q \in -1..MaxQty : SetQuantity(o, q) => ~heap'[o].active
              /\ heap'[o].active => SetActive(o, TRUE)]_vars

\* An inactive product was restocked to the largest quantity and is still
\* inactive.
C21_Witness ==
    /\ last.op = "set_quantity"
    /\ last.err = "none"
    /\ last.arg = MaxQty
    /\ Stocked(heap[last.obj])
    /\ Quantity(heap[last.obj]) = MaxQty
    /\ ~heap[last.obj].active

(***************************************************************************)
(* Creation of promotions, checked under PromotionSpec.                    *)
(***************************************************************************)

\* C22: creating a promotion with an empty name, or a PercentDiscount with a
\* percent below 0 or above 100, raises and yields no promotion object.
C22_InvalidPromotionRejected ==
    [][\A cls \in PromotionClasses, name \in PromotionNames, percent \in AnyPercents :
          (/\ NewPromotion(cls, name, percent)
           /\ \/ name = ""
              \/ cls = "PercentDiscount" /\ (percent < 0 \/ percent > 100))
          => last'.err # "none" /\ heap' = heap]_vars

(***************************************************************************)
(* Equality and hash of products, checked under EqualitySpec.              *)
(***************************************************************************)

\* C23: product == other is true exactly when the names match and the prices
\* match, whatever the quantities, active flags, promotions and classes; and
\* products that are equal have the same hash.
C23_EqualityAndHash ==
    /\ last.op = "eq" =>
           last.ret = << /\ heap[last.obj].name = heap[last.arg].name
                         /\ heap[last.obj].price = heap[last.arg].price >>
    /\ last.op = "hash" =>
           \A other \in DOMAIN heap :
               (/\ heap[last.obj].name = heap[other].name
                /\ heap[last.obj].price = heap[other].price)
               => last.ret = <<Hash(heap[other])>>

\* Two products of different classes, quantities, flags and promotions have
\* compared equal.
C23_Witness ==
    /\ last.op = "eq"
    /\ last.ret = <<TRUE>>
    /\ heap[last.obj].cls # heap[last.arg].cls
    /\ heap[last.obj].quantity # heap[last.arg].quantity
    /\ heap[last.obj].active # heap[last.arg].active
    /\ heap[last.obj].promotion # heap[last.arg].promotion

(***************************************************************************)
(* Orders and the stock of the catalog, checked under StoreSpec.           *)
(***************************************************************************)

\* The units of Products and LimitedProducts a shopping list asks for.
RECURSIVE OrderedUnits(_, _)
OrderedUnits(h, shopping_list) ==
    IF shopping_list = <<>> THEN 0
    ELSE (IF Stocked(h[Head(shopping_list)[1]]) THEN Head(shopping_list)[2] ELSE 0)
         + OrderedUnits(h, Tail(shopping_list))

\* C24: an order that succeeds lowers get_total_quantity of the store by the
\* units it asked for of Products and LimitedProducts, also when an item's
\* product is an equal copy of a catalog product and not the catalog's object.
C24_OrderLowersCatalogStock ==
    [][(Order /\ last'.err = "none") =>
          GetTotalQuantity(heap, products) - GetTotalQuantity(heap', products')
              = OrderedUnits(heap, pending[1])]_vars

(***************************************************************************)
(* Conservation of stock, checked under Spec.                              *)
(***************************************************************************)

\* The units a step sells of product o: the quantity of a buy that succeeds.
UnitsSold(o) ==
    IF last'.op = "buy" /\ last'.obj = o /\ last'.err = "none" THEN last'.arg ELSE 0

\* C25: in every step that is not a quantity set, the quantity of a Product or
\* LimitedProduct before the step is its quantity after the step plus the
\* units the step sold, which are none or more, and the quantity after is not
\* below 0; so from the construction on, or from the last quantity set, the
\* initial quantity is the current quantity plus the units of all buys that
\* succeeded, and the units sold never exceed it.
C25_StockConservation ==
    [][\A o \in DOMAIN heap :
          (Stocked(heap[o]) /\ last'.op # "set_quantity") =>
              /\ heap[o].quantity = heap'[o].quantity + UnitsSold(o)
              /\ UnitsSold(o) >= 0
              /\ heap'[o].quantity >= 0]_vars

\* A buy of all the units but one of the largest stock has sold a Product out.
C25_Witness ==
    /\ last.op = "buy"
    /\ last.err = "none"
    /\ last.arg = MaxQty - 1
    /\ heap[last.obj].cls = "Product"
    /\ Quantity(heap[last.obj]) = 0

====
